---- MODULE Spec2Model ----
(***************************************************************************)
(* A model of pacgo (src/source/main.go, second revision, lines 331-902):  *)
(* the game loop of main, the input goroutine, the processPill goroutines, *)
(* the pill timer, pillMx and the ghostStatusMx reader/writer lock.        *)
(* Rows and columns are 0-based as in the Go code; a maze is a tuple of    *)
(* rows, each a tuple of one-character strings.                            *)
(***************************************************************************)
EXTENDS Integers, Sequences, FiniteSets, TLC

\* ------------------------------------------------------------------ bounds

\* cfg.PillDurationSecs, in units of the model's clock
PillDurationSecs == 1

\* the longest sequence of directions applied to makeMove in SpecMove
MaxDirs == 2

\* ------------------------------------------------------- program constants

InitialLives == 3
PillScore == 10
DotScore == 1

GhostStatusNormal == "Normal"
GhostStatusBlue == "Blue"

\* the directions drawDirection can return, and what readInput can return
Directions == {"UP", "DOWN", "RIGHT", "LEFT"}
Commands == Directions \cup {"ESC", ""}

\* ------------------------------------------------------------------ mazes

\* two pills within reach of the player, a dot, and a ghost walled in
MazePills ==
  << <<"P", "X", "X", ".", "#", "G", "#">> >>

\* one pill, a dot, a roaming ghost and a ghost walled in
MazeChase ==
  << <<"P", "X", ".", "G", "#", "G", "#">> >>

\* no pill: the player next to a wall, a dot and two roaming ghosts
MazeGhosts ==
  << <<"#", "P", "G", "G", ".">> >>

\* two rows, no ghost and no pill
MazeDots ==
  << <<"P", ".", "#">>,
     <<".", "#", " ">> >>

Mazes == {MazePills, MazeChase, MazeGhosts, MazeDots}

NumRows(m) == Len(m)
NumCols(m) == Len(m[1])

\* maze[row][col] of the Go code
Cell(m, row, col) == m[row + 1][col + 1]

\* the cells of the maze in the order loadMaze scans them
ScanIndex(m) == 0 .. (NumRows(m) * NumCols(m) - 1)
ScanRow(m, k) == k \div NumCols(m)
ScanCol(m, k) == k % NumCols(m)
ScanCell(m, k) == Cell(m, ScanRow(m, k), ScanCol(m, k))

CountCells(m, ch) == Cardinality({k \in ScanIndex(m) : ScanCell(m, k) = ch})

Sprite(r, c) == [row |-> r, col |-> c, startRow |-> r, startCol |-> c]

\* loadMaze: the last 'P' scanned is the player (the zero sprite without one)
LoadPlayer(m) ==
  LET ps == {k \in ScanIndex(m) : ScanCell(m, k) = "P"}
  IN  IF ps = {} THEN Sprite(0, 0)
      ELSE LET k == CHOOSE x \in ps : \A y \in ps : y <= x
           IN  Sprite(ScanRow(m, k), ScanCol(m, k))

\* loadMaze: one Normal ghost per 'G', in scan order
LoadGhosts(m) ==
  LET all == [i \in 1 .. (NumRows(m) * NumCols(m)) |-> i - 1]
      gs  == SelectSeq(all, LAMBDA k : ScanCell(m, k) = "G")
  IN  [i \in 1 .. Len(gs) |->
         [position |-> Sprite(ScanRow(m, gs[i]), ScanCol(m, gs[i])),
          status   |-> GhostStatusNormal]]

\* loadMaze: numDots counts the '.' cells
LoadNumDots(m) == CountCells(m, ".")

\* ------------------------------------------------------------- makeMove

\* mutant: UP on the first row stays on the first row
WrappedClamped(m, oldRow, oldCol, dir) ==
  CASE dir = "UP" ->
         <<IF oldRow - 1 < 0 THEN 0 ELSE oldRow - 1, oldCol>>
    [] dir = "DOWN" ->
         <<IF oldRow + 1 = NumRows(m) THEN 0 ELSE oldRow + 1, oldCol>>
    [] dir = "RIGHT" ->
         <<oldRow, IF oldCol + 1 = NumCols(m) THEN 0 ELSE oldCol + 1>>
    [] dir = "LEFT" ->
         <<oldRow, IF oldCol - 1 < 0 THEN NumCols(m) - 1 ELSE oldCol - 1>>
    [] OTHER -> <<oldRow, oldCol>>

\* lines 568-592 of makeMove: the step in the direction, with the wraparound
Wrapped(m, oldRow, oldCol, dir) ==
  CASE dir = "UP" ->
         <<IF oldRow - 1 < 0 THEN NumRows(m) - 1 ELSE oldRow - 1, oldCol>>
    [] dir = "DOWN" ->
         <<IF oldRow + 1 = NumRows(m) THEN 0 ELSE oldRow + 1, oldCol>>
    [] dir = "RIGHT" ->
         <<oldRow, IF oldCol + 1 = NumCols(m) THEN 0 ELSE oldCol + 1>>
    [] dir = "LEFT" ->
         <<oldRow, IF oldCol - 1 < 0 THEN NumCols(m) - 1 ELSE oldCol - 1>>
    [] OTHER -> <<oldRow, oldCol>>

\* mutant: the wall test of line 595 is left out
makeMoveThroughWalls(m, oldRow, oldCol, dir) == Wrapped(m, oldRow, oldCol, dir)

makeMove(m, oldRow, oldCol, dir) ==
  LET new == Wrapped(m, oldRow, oldCol, dir)
  IN  IF Cell(m, new[1], new[2]) = "#" THEN <<oldRow, oldCol>> ELSE new

\* mutant: the consumed cell is left as it was
removeDotKept(m, row, col) == m

\* removeDot of movePlayer
removeDot(m, row, col) == [m EXCEPT ![row + 1][col + 1] = " "]


\* ------------------------------------------------------------- the state

VARIABLES
  maze,            \* var maze []string
  player,          \* var player sprite
  ghosts,          \* var ghosts []*ghost
  score,           \* var score int
  numDots,         \* var numDots int
  lives,           \* var lives = 3
  pillTimer,       \* var pillTimer *time.Timer: 0 is nil, else an index of timers
  pillMx,          \* var pillMx sync.Mutex: 0 is unlocked, else the task holding it
  ghostStatusMx,   \* var ghostStatusMx sync.RWMutex
  timers,          \* the time.Timer objects created so far
  asynctimerchan,  \* TRUE: timer channels are buffered (Go before 1.23 semantics)
  tasks,           \* the processPill goroutines started so far
  inPending,       \* what the input goroutine has still to send on the channel
  mainPc,          \* where the game loop of main is
  gi,              \* the index of the ghost the collision loop is at
  pillThisTick,    \* history: movePlayer consumed a pill in the current tick
  escThisTick,     \* history: the select of the current tick received "ESC"
  lastEvent        \* history: what the last step of the game loop did

vars == <<maze, player, ghosts, score, numDots, lives, pillTimer, pillMx,
          ghostStatusMx, timers, asynctimerchan, tasks, inPending, mainPc, gi,
          pillThisTick, escThisTick, lastEvent>>

gameVars == <<maze, player, ghosts, score, numDots, lives>>
pillVars == <<pillTimer, pillMx, timers, tasks>>
mainVars == <<mainPc, gi, pillThisTick, escThisTick, lastEvent>>

\* the holder name of the game loop in ghostStatusMx.writer (tasks are 1, 2, ...)
MainId == 0

NoEvent == [kind |-> "none", ghost |-> 0]
Event(k, i) == [kind |-> k, ghost |-> i]

\* ------------------------------------------------- sync.RWMutex, sync.Mutex

\* A writer in Lock() first excludes the other writers, then announces itself
\* and waits until the active readers have left; RLock() blocks from the
\* moment a writer is announced until that writer unlocks.
RWFree == [readers |-> 0, wstate |-> "free", writer |-> MainId]

RWCanRLock(rw) == rw.wstate = "free"
RWRLock(rw) == [rw EXCEPT !.readers = @ + 1]
RWRUnlock(rw) == [rw EXCEPT !.readers = @ - 1]

\* Lock(): the announcement, and the condition under which Lock() returns
RWCanLock(rw) == rw.wstate = "free"
RWLock(rw, who) == [rw EXCEPT !.wstate = "writer", !.writer = who]
\* mutant: Lock() returns without waiting for the active readers
RWLockedEarly(rw, who) == rw.wstate = "writer" /\ rw.writer = who

RWLocked(rw, who) == rw.wstate = "writer" /\ rw.writer = who /\ rw.readers = 0
RWUnlock(rw) == [rw EXCEPT !.wstate = "free", !.writer = MainId]

\* ---------------------------------------------------------------- time.Timer

NewTimer(d) == [active |-> TRUE, remaining |-> d, chan |-> 0, fired |-> FALSE]

\* t.Stop(): an active timer is cancelled; on a timer that already fired the
\* value stays in the buffered channel, or is discarded by an unbuffered one
StopTimer(ts, id) ==
  IF ts[id].active THEN [ts EXCEPT ![id].active = FALSE]
  ELSE IF asynctimerchan THEN ts
  ELSE [ts EXCEPT ![id].chan = 0]

\* ---------------------------------------------------------------- updateGhosts

\* the loop of updateGhosts over the ghosts with an index in idx
updateGhosts(gs, idx, ghostStatus) ==
  [i \in 1 .. Len(gs) |->
     IF i \in idx THEN [gs[i] EXCEPT !.status = ghostStatus] ELSE gs[i]]

AllGhosts == 1 .. Len(ghosts)

\* ---------------------------------------------------------------- loading

\* a processPill goroutine: where it is, the timer it created, the timer whose
\* channel it waits on, and (history) the timer it stopped at line 680
NewTask == [pc |-> "start", timer |-> 0, waitOn |-> 0, stopped |-> 0]

Init ==
  /\ maze \in Mazes
  /\ player = LoadPlayer(maze)
  /\ ghosts = LoadGhosts(maze)
  /\ numDots = LoadNumDots(maze)
  /\ score = 0
  /\ lives = InitialLives
  /\ pillTimer = 0
  /\ pillMx = 0
  /\ ghostStatusMx = RWFree
  /\ timers = <<>>
  /\ asynctimerchan \in BOOLEAN
  /\ tasks = <<>>
  /\ inPending = <<>>
  /\ mainPc = "select"
  /\ gi = 0
  /\ pillThisTick = FALSE
  /\ escThisTick = FALSE
  /\ lastEvent = NoEvent

Running == mainPc # "done"


\* ---------------------------------------------------------- input goroutine

\* One iteration of the input goroutine (main, lines 835-844): readInput
\* returns a command, or an error, after which "ESC" and then the empty input
\* are sent.  The channel is unbuffered: a send completes when the game loop
\* receives, so the goroutine reads again only when nothing is left to send.
InputRead ==
  /\ Running
  /\ inPending = <<>>
  /\ \/ \E c \in Commands : inPending' = <<c>>
     \/ inPending' = <<"ESC", "">>
  /\ UNCHANGED <<gameVars, pillVars, ghostStatusMx, asynctimerchan, mainVars>>

\* ------------------------------------------------------------------ the tick

\* movePlayer(dir), with the goroutine it starts on a pill
movePlayer(dir) ==
  LET new  == makeMove(maze, player.row, player.col, dir)
      cell == Cell(maze, new[1], new[2])
  IN  /\ player' = [player EXCEPT !.row = new[1], !.col = new[2]]
      /\ CASE cell = "." ->
                /\ numDots' = numDots - 1
                /\ score' = score + DotScore
                /\ maze' = removeDot(maze, new[1], new[2])
                /\ tasks' = tasks
                /\ pillThisTick' = FALSE
           [] cell = "X" ->
                /\ score' = score + PillScore
                /\ maze' = removeDot(maze, new[1], new[2])
                /\ tasks' = Append(tasks, NewTask)
                /\ numDots' = numDots
                /\ pillThisTick' = TRUE
           [] OTHER ->
                /\ UNCHANGED <<numDots, score, maze, tasks>>
                /\ pillThisTick' = FALSE

\* mutant: the receive takes everything the input goroutine has to send
MainSelectRecvDrained ==
  /\ mainPc = "select"
  /\ inPending # <<>>
  /\ LET inp == Head(inPending)
     IN  /\ lives' = IF inp = "ESC" THEN 0 ELSE lives
         /\ movePlayer(inp)
         /\ escThisTick' = (inp = "ESC")
  /\ inPending' = <<>>
  /\ mainPc' = "moveGhosts"
  /\ lastEvent' = NoEvent
  /\ UNCHANGED <<ghosts, pillTimer, pillMx, timers, ghostStatusMx,
                 asynctimerchan, gi>>

\* the select of the game loop when the input goroutine is sending
MainSelectRecv ==
  /\ mainPc = "select"
  /\ inPending # <<>>
  /\ LET inp == Head(inPending)
     IN  /\ lives' = IF inp = "ESC" THEN 0 ELSE lives
         /\ movePlayer(inp)
         /\ escThisTick' = (inp = "ESC")
  /\ inPending' = Tail(inPending)
  /\ mainPc' = "moveGhosts"
  /\ lastEvent' = NoEvent
  /\ UNCHANGED <<ghosts, pillTimer, pillMx, timers, ghostStatusMx,
                 asynctimerchan, gi>>

\* the default case of the select
MainSelectDefault ==
  /\ mainPc = "select"
  /\ inPending = <<>>
  /\ mainPc' = "moveGhosts"
  /\ pillThisTick' = FALSE
  /\ escThisTick' = FALSE
  /\ lastEvent' = NoEvent
  /\ UNCHANGED <<gameVars, pillVars, ghostStatusMx, asynctimerchan, inPending, gi>>

\* moveGhosts: every ghost draws a direction and moves
moveGhosts(dirs) ==
  [i \in 1 .. Len(ghosts) |->
     LET g   == ghosts[i].position
         new == makeMove(maze, g.row, g.col, dirs[i])
     IN  [ghosts[i] EXCEPT !.position.row = new[1], !.position.col = new[2]]]

MainMoveGhosts ==
  /\ mainPc = "moveGhosts"
  /\ \E dirs \in [1 .. Len(ghosts) -> Directions] : ghosts' = moveGhosts(dirs)
  /\ mainPc' = "collide"
  /\ gi' = 1
  /\ lastEvent' = NoEvent
  /\ UNCHANGED <<maze, player, score, numDots, lives, pillVars, ghostStatusMx,
                 asynctimerchan, inPending, pillThisTick, escThisTick>>

\* the test of the collision loop (line 865)
Collides(p, g) == p.row = g.position.row /\ p.col = g.position.col

\* the first ghost at or after index i that is on the player's cell
NextColliding(i, p, gs) ==
  LET c == {j \in i .. Len(gs) : Collides(p, gs[j])}
  IN  IF c = {} THEN Len(gs) + 1 ELSE CHOOSE j \in c : \A k \in c : j <= k

\* the collision loop has no ghost on the player's cell left
MainCollideDone ==
  /\ mainPc = "collide"
  /\ NextColliding(gi, player, ghosts) > Len(ghosts)
  /\ mainPc' = "render"
  /\ gi' = 0
  /\ lastEvent' = NoEvent
  /\ UNCHANGED <<gameVars, pillVars, ghostStatusMx, asynctimerchan, inPending,
                 pillThisTick, escThisTick>>

\* line 866: RLock for the next ghost on the player's cell
MainCollideRLock ==
  /\ mainPc = "collide"
  /\ NextColliding(gi, player, ghosts) <= Len(ghosts)
  /\ RWCanRLock(ghostStatusMx)
  /\ ghostStatusMx' = RWRLock(ghostStatusMx)
  /\ gi' = NextColliding(gi, player, ghosts)
  /\ mainPc' = "collRead"
  /\ lastEvent' = NoEvent
  /\ UNCHANGED <<gameVars, pillVars, asynctimerchan, inPending, pillThisTick, escThisTick>>

\* lines 867-869 and 873: a Normal ghost costs a life; the read lock is released
\* only when lives are left
LethalUnlock(rw, l) == IF l # 0 THEN RWRUnlock(rw) ELSE rw

\* lines 867-878: the status read and its branch
MainCollRead ==
  /\ mainPc = "collRead"
  /\ IF ghosts[gi].status = GhostStatusNormal
     THEN /\ lives' = lives - 1
          /\ ghostStatusMx' = LethalUnlock(ghostStatusMx, lives')
          /\ IF lives' # 0
             THEN mainPc' = "respawn" /\ gi' = gi
             ELSE mainPc' = "collide" /\ gi' = gi + 1
          /\ lastEvent' = Event("lethal", gi)
     ELSE /\ ghosts[gi].status = GhostStatusBlue
          /\ ghostStatusMx' = RWRUnlock(ghostStatusMx)
          /\ mainPc' = "eatLock"
          /\ lastEvent' = Event("blue", gi)
          /\ UNCHANGED <<lives, gi>>
  /\ UNCHANGED <<maze, player, ghosts, score, numDots, pillVars, asynctimerchan,
                 inPending, pillThisTick, escThisTick>>

\* line 875, after the sleep of line 874
Respawn(p) == [p EXCEPT !.row = p.startRow, !.col = p.startRow]

MainRespawn ==
  /\ mainPc = "respawn"
  /\ player' = Respawn(player)
  /\ mainPc' = "collide"
  /\ gi' = gi + 1
  /\ lastEvent' = Event("respawn", gi)
  /\ UNCHANGED <<maze, ghosts, score, numDots, lives, pillVars, ghostStatusMx,
                 asynctimerchan, inPending, pillThisTick, escThisTick>>

\* line 879: updateGhosts([]*ghost{g}, GhostStatusNormal) calls Lock()
MainEatLock ==
  /\ mainPc = "eatLock"
  /\ RWCanLock(ghostStatusMx)
  /\ ghostStatusMx' = RWLock(ghostStatusMx, MainId)
  /\ mainPc' = "eatWrite"
  /\ lastEvent' = NoEvent
  /\ UNCHANGED <<gameVars, pillVars, asynctimerchan, inPending, gi, pillThisTick, escThisTick>>

\* mutant: every ghost is passed to updateGhosts, not the eaten one alone
EatGhostAll(gs, i) ==
  LET w == updateGhosts(gs, 1 .. Len(gs), GhostStatusNormal)
  IN  [w EXCEPT ![i].position.row = w[i].position.startRow,
                ![i].position.col = w[i].position.startCol]

\* lines 879-880, once Lock() has returned: the eaten ghost turns Normal and
\* goes back to its start
EatGhost(gs, i) ==
  LET w == updateGhosts(gs, {i}, GhostStatusNormal)
  IN  [w EXCEPT ![i].position.row = w[i].position.startRow,
                ![i].position.col = w[i].position.startCol]

\* what eating a ghost adds to the score (lines 877-881 add nothing)
EatScore == 0

MainEatWrite ==
  /\ mainPc = "eatWrite"
  /\ RWLocked(ghostStatusMx, MainId)
  /\ ghosts' = EatGhost(ghosts, gi)
  /\ score' = score + EatScore
  /\ ghostStatusMx' = RWUnlock(ghostStatusMx)
  /\ mainPc' = "collide"
  /\ gi' = gi + 1
  /\ lastEvent' = Event("eaten", gi)
  /\ UNCHANGED <<maze, player, numDots, lives, pillVars, asynctimerchan,
                 inPending, pillThisTick, escThisTick>>

\* printScreen: line 727
MainRenderRLock ==
  /\ mainPc = "render"
  /\ RWCanRLock(ghostStatusMx)
  /\ ghostStatusMx' = RWRLock(ghostStatusMx)
  /\ mainPc' = "renderRead"
  /\ lastEvent' = NoEvent
  /\ UNCHANGED <<gameVars, pillVars, asynctimerchan, inPending, gi, pillThisTick, escThisTick>>

\* printScreen: lines 728-736, the ghosts are drawn and the read lock released
MainRenderDraw ==
  /\ mainPc = "renderRead"
  /\ ghostStatusMx' = RWRUnlock(ghostStatusMx)
  /\ mainPc' = "check"
  /\ lastEvent' = NoEvent
  /\ UNCHANGED <<gameVars, pillVars, asynctimerchan, inPending, gi, pillThisTick, escThisTick>>

\* mutant: the loop is left only when the lives are used up
GameOverLivesOnly == lives <= 0

\* line 889
GameOver == numDots = 0 \/ lives <= 0

\* lines 889-900: leave the loop, or sleep and start the next tick
MainCheck ==
  /\ mainPc = "check"
  /\ mainPc' = IF GameOver THEN "done" ELSE "select"
  /\ lastEvent' = NoEvent
  /\ UNCHANGED <<gameVars, pillVars, ghostStatusMx, asynctimerchan, inPending,
                 gi, pillThisTick, escThisTick>>


\* -------------------------------------------------------------- processPill

TaskIds == 1 .. Len(tasks)

\* line 671
PillLock ==
  \E k \in TaskIds :
    /\ Running
    /\ tasks[k].pc = "start"
    /\ pillMx = 0
    /\ pillMx' = k
    /\ tasks' = [tasks EXCEPT ![k].pc = "blueLock"]
    /\ UNCHANGED <<gameVars, pillTimer, timers, ghostStatusMx, asynctimerchan,
                   inPending, mainVars>>

\* line 672: updateGhosts(ghosts, GhostStatusBlue) calls Lock()
PillBlueLock ==
  \E k \in TaskIds :
    /\ Running
    /\ tasks[k].pc = "blueLock"
    /\ RWCanLock(ghostStatusMx)
    /\ ghostStatusMx' = RWLock(ghostStatusMx, k)
    /\ tasks' = [tasks EXCEPT ![k].pc = "blueWrite"]
    /\ UNCHANGED <<gameVars, pillTimer, pillMx, timers, asynctimerchan, inPending,
                   mainVars>>

\* line 672, once Lock() has returned: every ghost turns Blue and the write
\* lock is released
PillBlueWrite ==
  \E k \in TaskIds :
    /\ Running
    /\ tasks[k].pc = "blueWrite"
    /\ RWLocked(ghostStatusMx, k)
    /\ ghosts' = updateGhosts(ghosts, AllGhosts, GhostStatusBlue)
    /\ ghostStatusMx' = RWUnlock(ghostStatusMx)
    /\ tasks' = [tasks EXCEPT ![k].pc = "arm"]
    /\ UNCHANGED <<maze, player, score, numDots, lives, pillTimer, pillMx, timers,
                   asynctimerchan, inPending, mainVars>>

\* mutant: the timer of an earlier pill is left running
StopCurrentSkipped(ts, cur) == ts

\* lines 673-675: the timer of an earlier pill is stopped
StopCurrent(ts, cur) == IF cur # 0 THEN StopTimer(ts, cur) ELSE ts

\* lines 673-677: stop the current timer, install a new one, unlock pillMx
PillArm ==
  \E k \in TaskIds :
    /\ Running
    /\ tasks[k].pc = "arm"
    /\ timers' = Append(StopCurrent(timers, pillTimer), NewTimer(PillDurationSecs))
    /\ pillTimer' = Len(timers) + 1
    /\ pillMx' = 0
    /\ tasks' = [tasks EXCEPT ![k].pc = "bind", ![k].timer = pillTimer']
    /\ UNCHANGED <<gameVars, ghostStatusMx, asynctimerchan, inPending, mainVars>>

\* line 678: pillTimer is read, without pillMx, to find the channel to wait on
PillBind ==
  \E k \in TaskIds :
    /\ Running
    /\ tasks[k].pc = "bind"
    /\ tasks' = [tasks EXCEPT ![k].pc = "wait", ![k].waitOn = pillTimer]
    /\ UNCHANGED <<gameVars, pillTimer, pillMx, timers, ghostStatusMx,
                   asynctimerchan, inPending, mainVars>>

\* line 678: the receive from the timer's channel
PillRecv ==
  \E k \in TaskIds :
    /\ Running
    /\ tasks[k].pc = "wait"
    /\ timers[tasks[k].waitOn].chan = 1
    /\ timers' = [timers EXCEPT ![tasks[k].waitOn].chan = 0]
    /\ tasks' = [tasks EXCEPT ![k].pc = "relock"]
    /\ UNCHANGED <<gameVars, pillTimer, pillMx, ghostStatusMx, asynctimerchan,
                   inPending, mainVars>>

\* line 679
PillRelock ==
  \E k \in TaskIds :
    /\ Running
    /\ tasks[k].pc = "relock"
    /\ pillMx = 0
    /\ pillMx' = k
    /\ tasks' = [tasks EXCEPT ![k].pc = "expStop"]
    /\ UNCHANGED <<gameVars, pillTimer, timers, ghostStatusMx, asynctimerchan,
                   inPending, mainVars>>

\* line 680: pillTimer.Stop() on whatever timer pillTimer now is
PillExpStop ==
  \E k \in TaskIds :
    /\ Running
    /\ tasks[k].pc = "expStop"
    /\ timers' = StopTimer(timers, pillTimer)
    /\ tasks' = [tasks EXCEPT ![k].pc = "expLock", ![k].stopped = pillTimer]
    /\ UNCHANGED <<gameVars, pillTimer, pillMx, ghostStatusMx, asynctimerchan,
                   inPending, mainVars>>

\* line 681: updateGhosts(ghosts, GhostStatusNormal) calls Lock()
PillExpLock ==
  \E k \in TaskIds :
    /\ Running
    /\ tasks[k].pc = "expLock"
    /\ RWCanLock(ghostStatusMx)
    /\ ghostStatusMx' = RWLock(ghostStatusMx, k)
    /\ tasks' = [tasks EXCEPT ![k].pc = "expWrite"]
    /\ UNCHANGED <<gameVars, pillTimer, pillMx, timers, asynctimerchan, inPending,
                   mainVars>>

\* mutant: the expiry writes Blue again
ExpiryStatusBlue == GhostStatusBlue

\* the status the expiry of line 681 writes
ExpiryStatus == GhostStatusNormal

\* lines 681-683, once Lock() has returned: every ghost turns Normal, both
\* locks are released, the task ends
PillExpWrite ==
  \E k \in TaskIds :
    /\ Running
    /\ tasks[k].pc = "expWrite"
    /\ RWLocked(ghostStatusMx, k)
    /\ ghosts' = updateGhosts(ghosts, AllGhosts, ExpiryStatus)
    /\ ghostStatusMx' = RWUnlock(ghostStatusMx)
    /\ pillMx' = 0
    /\ tasks' = [tasks EXCEPT ![k].pc = "done"]
    /\ UNCHANGED <<maze, player, score, numDots, lives, pillTimer, timers,
                   asynctimerchan, inPending, mainVars>>

\* ------------------------------------------------------------------ the clock

TimerIds == 1 .. Len(timers)

\* a unit of time goes by for every running countdown
TimePasses ==
  /\ Running
  /\ \E i \in TimerIds : timers[i].active /\ timers[i].remaining > 0
  /\ timers' = [i \in TimerIds |->
                  IF timers[i].active /\ timers[i].remaining > 0
                  THEN [timers[i] EXCEPT !.remaining = @ - 1] ELSE timers[i]]
  /\ UNCHANGED <<gameVars, pillTimer, pillMx, tasks, ghostStatusMx,
                 asynctimerchan, inPending, mainVars>>

\* a countdown that has run out sends on the timer's channel
TimerFire ==
  \E i \in TimerIds :
    /\ Running
    /\ timers[i].active
    /\ timers[i].remaining = 0
    /\ timers' = [timers EXCEPT ![i].active = FALSE, ![i].fired = TRUE, ![i].chan = 1]
    /\ UNCHANGED <<gameVars, pillTimer, pillMx, tasks, ghostStatusMx,
                   asynctimerchan, inPending, mainVars>>

\* ------------------------------------------------------------ specification

Next ==
  \/ MainSelectRecv
  \/ MainSelectDefault
  \/ MainMoveGhosts
  \/ MainCollideDone
  \/ MainCollideRLock
  \/ MainCollRead
  \/ MainRespawn
  \/ MainEatLock
  \/ MainEatWrite
  \/ MainRenderRLock
  \/ MainRenderDraw
  \/ MainCheck
  \/ InputRead
  \/ PillLock
  \/ PillBlueLock
  \/ PillBlueWrite
  \/ PillArm
  \/ PillBind
  \/ PillRecv
  \/ PillRelock
  \/ PillExpStop
  \/ PillExpLock
  \/ PillExpWrite
  \/ TimePasses
  \/ TimerFire

Spec == Init /\ [][Next]_vars


\* ------------------------------------------------------------------ claims

\* the tasks that have applied line 680 (and go on to line 681)
Expiring(t) == t.stopped # 0

\* C1: a processPill task whose timer instance was replaced by a later pill
\* never applies its expiry: a task that stops a timer at line 680 and reverts
\* the ghosts at line 681 does so only while the instance it waited on is still
\* the one pillTimer holds.
C1_CancelledNeverFires ==
  \A k \in TaskIds :
    Expiring(tasks[k]) => tasks[k].stopped = tasks[k].waitOn

\* C2: in a tick in which movePlayer consumed a pill, the collision loop reads
\* Blue for every ghost on the player's cell, and no ghost costs a life.
C2_PillStatusSynchronous ==
  pillThisTick =>
    /\ mainPc = "collRead" => ghosts[gi].status = GhostStatusBlue
    /\ lastEvent.kind # "lethal"

\* the tasks that have armed a timer and not yet finished its expiry
InFlight(t) == t.pc \in {"bind", "wait", "relock", "expStop", "expLock", "expWrite"}

\* the steps of processPill, seen from outside
Arms(k) == tasks[k].pc = "arm" /\ tasks'[k].pc = "bind"
Retriggers(k) == Arms(k) /\ pillTimer # 0 /\ \E j \in TaskIds : InFlight(tasks[j])
WritesBlue(k) == tasks[k].pc = "blueWrite" /\ tasks'[k].pc = "arm"
StopsAtExpiry(k) == tasks[k].pc = "expStop" /\ tasks'[k].pc = "expLock"
Reverts(k) == tasks[k].pc = "expWrite" /\ tasks'[k].pc = "done"

ActiveTimers == {i \in TimerIds : timers[i].active}

\* what C3 asks of every step
C3_RetriggerStep ==
  \A k \in TaskIds :
    /\ WritesBlue(k) => \A i \in 1 .. Len(ghosts) : ghosts'[i].status = GhostStatusBlue
    /\ Retriggers(k) =>
         /\ ~timers'[pillTimer].active
         /\ timers'[pillTimer'] = NewTimer(PillDurationSecs)
         /\ {i \in 1 .. Len(timers') : timers'[i].active} = {pillTimer'}
         /\ ghosts' = ghosts
    /\ StopsAtExpiry(k) => ~timers[pillTimer].active
    /\ Reverts(k) => timers[pillTimer].fired

\* C3: a re-trigger stops the old countdown and leaves exactly one countdown,
\* the new one, running for the full duration; its Blue write leaves every
\* ghost Blue; and no task stops a countdown that is still running or reverts
\* the ghosts while the current countdown has not fired.
C3_RetriggerKeepsBlue == [][C3_RetriggerStep]_vars

\* C4: the countdown that no later pill has replaced is expired exactly once,
\* by one task, and only after it has fired: no task applies lines 680-681 to
\* it before, and no second task does afterwards.
C4_ExpiryOnce ==
  pillTimer # 0 =>
    LET by == {k \in TaskIds : tasks[k].stopped = pillTimer}
    IN  /\ Cardinality(by) <= 1
        /\ by # {} => timers[pillTimer].fired

\* the tasks between their Blue write (line 672) and the end of their Normal
\* write (line 681)
InWindow(t) == t.pc \in {"arm", "bind", "wait", "relock", "expStop", "expLock",
                         "expWrite"}

SomeBlue == \E i \in 1 .. Len(ghosts) : ghosts[i].status = GhostStatusBlue

C6_OneCountdown == Cardinality(ActiveTimers) <= 1

\* the second pill has cancelled the first countdown before it fired, and only
\* the new countdown is running
C6_Witness ==
  /\ Len(timers) = 2
  /\ ~timers[1].active
  /\ ~timers[1].fired
  /\ ActiveTimers = {2}

\* the steps of the collision loop, seen from outside
FindsNormal == mainPc = "collRead" /\ mainPc' # "collRead"
                 /\ ghosts[gi].status = GhostStatusNormal
Respawns == mainPc = "respawn" /\ mainPc' # "respawn"
EatsGhost == mainPc = "eatWrite" /\ mainPc' # "eatWrite"

\* what C7 asks of every step
C7_LethalStep ==
  /\ FindsNormal =>
       /\ lives' = lives - 1
       /\ lives' > 0 => mainPc' = "respawn"
  /\ Respawns =>
       /\ player'.row = player.startRow
       /\ player'.col = player.startCol

\* C7: a Normal ghost on the player's cell takes exactly one life, and with a
\* life left the player goes back to (start row, start column).
C7_LethalOutcome == [][C7_LethalStep]_vars

\* what C8 asks of every step
C8_EatStep ==
  EatsGhost =>
    /\ ghosts'[gi].status = GhostStatusNormal
    /\ ghosts'[gi].position.row = ghosts[gi].position.startRow
    /\ ghosts'[gi].position.col = ghosts[gi].position.startCol
    /\ lives' = lives
    /\ \A j \in 1 .. Len(ghosts) : j # gi => ghosts'[j] = ghosts[j]

\* C8: eating a Blue ghost turns that ghost Normal and puts it on its own start
\* cell; lives, and every other ghost's status and position, stay as they are.
C8_EatenFrame == [][C8_EatStep]_vars

\* the roaming ghost has just been eaten and the other ghost is still Blue
C8_Witness ==
  /\ lastEvent = Event("eaten", 1)
  /\ Len(ghosts) = 2
  /\ ghosts[1].status = GhostStatusNormal
  /\ ghosts[1].position.col = ghosts[1].position.startCol
  /\ ghosts[2].status = GhostStatusBlue

\* what C9 asks of every step
C9_EatStep == EatsGhost => score' = score + PillScore

\* C9: eating a Blue ghost adds the pill bonus to the score.
C9_EatBonus == [][C9_EatStep]_vars

\* a position inside the maze on a cell that is no wall
OnOpenCell(r, c) ==
  /\ 0 <= r /\ r < NumRows(maze)
  /\ 0 <= c /\ c < NumCols(maze)
  /\ Cell(maze, r, c) # "#"

\* C10: the player and every ghost are inside the maze on a cell that is no
\* wall, in every state.
C10_OpenCells ==
  /\ OnOpenCell(player.row, player.col)
  /\ \A i \in 1 .. Len(ghosts) :
       OnOpenCell(ghosts[i].position.row, ghosts[i].position.col)

\* ------------------------------------------------------------------ C11

\* the maze as loadMaze read it: the maze of Mazes the present one came from
\* by consumed dots and pills
ConsumedFrom(m0, m) ==
  /\ NumRows(m0) = NumRows(m)
  /\ NumCols(m0) = NumCols(m)
  /\ \A k \in ScanIndex(m) :
        \/ ScanCell(m, k) = ScanCell(m0, k)
        \/ ScanCell(m0, k) \in {".", "X"} /\ ScanCell(m, k) = " "

LoadedMaze == CHOOSE m0 \in Mazes : ConsumedFrom(m0, maze)

\* C11: in every state numDots is the number of '.' cells of the maze, so it
\* goes down by one exactly when a dot is consumed and not when a pill is; it
\* is never negative, and it is zero once no dot is left.
C11_DotAccounting ==
  /\ numDots = CountCells(maze, ".")
  /\ numDots >= 0

\* a pill and the last dot have been consumed
C11_Witness ==
  /\ numDots = 0
  /\ score = PillScore + DotScore
  /\ CountCells(LoadedMaze, "X") > CountCells(maze, "X")

\* ------------------------------------------------------------------ C12

\* the step is a receive from the input channel: the command at the head of
\* what the input goroutine sends is taken, alone, and applied
Receives ==
  /\ mainPc = "select"
  /\ mainPc' = "moveGhosts"
  /\ inPending # <<>>
  /\ inPending' = Tail(inPending)
  /\ LET inp == Head(inPending)
         new == makeMove(maze, player.row, player.col, inp)
     IN  /\ player'.row = new[1]
         /\ player'.col = new[2]
         /\ escThisTick' = (inp = "ESC")
         /\ inp = "ESC" => lives' = 0

\* the step is the input goroutine starting to send what it has read
Offers == inPending = <<>> /\ inPending' # <<>> /\ mainPc' = mainPc

C12_Step ==
  /\ inPending' # inPending => Receives \/ Offers
  /\ mainPc = "select" =>
        /\ ENABLED (MainSelectRecv \/ MainSelectDefault)
        /\ mainPc' # "select" /\ inPending # <<>> => Receives
        /\ mainPc' # "select" /\ inPending = <<>> =>
              /\ player' = player
              /\ inPending' = inPending

\* C12 (the part about one tick): the select never blocks: it receives one
\* command when the input goroutine is sending, and goes on with no direction
\* otherwise.  The commands sent are received one per tick in the order they
\* were sent, each is applied in the tick that receives it, and nothing else
\* removes or repeats a command.
C12_InputChannel == [][C12_Step]_vars

\* after a read error "ESC" has been received and applied, and the empty
\* command is still to be sent
C12_Witness ==
  /\ mainPc = "moveGhosts"
  /\ escThisTick
  /\ lives = 0
  /\ inPending = <<"">>

\* The scheduling of the Go runtime: the game loop, every processPill
\* goroutine and the runtime's timers take the steps they can take.  The
\* input goroutine waits for the terminal and has no such guarantee.
MainStep ==
  \/ MainSelectRecv \/ MainSelectDefault \/ MainMoveGhosts
  \/ MainCollideDone \/ MainCollideRLock \/ MainCollRead \/ MainRespawn
  \/ MainEatLock \/ MainEatWrite
  \/ MainRenderRLock \/ MainRenderDraw \/ MainCheck

PillStep ==
  \/ PillLock \/ PillBlueLock \/ PillBlueWrite \/ PillArm \/ PillBind
  \/ PillRecv \/ PillRelock \/ PillExpStop \/ PillExpLock \/ PillExpWrite

Fairness ==
  /\ WF_vars(MainStep)
  /\ WF_vars(PillStep)
  /\ WF_vars(TimePasses)
  /\ WF_vars(TimerFire)

FairSpec == Spec /\ Fairness

\* C12 (the eventual part): a command the input goroutine is sending is
\* received and applied by a later tick, unless the game loop has left the
\* loop by then.
C12_Applied ==
  \A n \in 1 .. 2 :
    Len(inPending) = n ~> (Len(inPending) < n \/ ~Running)

\* ------------------------------------------------------------------ C13

\* C13: a tick whose select received "ESC" goes through to the check of the
\* game-over condition without starting another tick, and the loop is left
\* with lives equal to zero.
C13_QuitAtZeroLives ==
  escThisTick =>
    /\ mainPc # "select"
    /\ mainPc = "done" => lives = 0

\* ------------------------------------------------------------------ C14

\* The game loop is the only reader of ghostStatusMx, so a read lock that is
\* held while the loop is about to lock is one it will never release: an
\* announced writer then waits for ever, and so does the loop's RLock behind
\* that writer, or the loop's own Lock.
LoopBlockedForever ==
  /\ ghostStatusMx.readers > 0
  /\ \/ /\ mainPc = "render"
        /\ ghostStatusMx.wstate = "writer"
     \/ /\ mainPc = "collide"
        /\ NextColliding(gi, player, ghosts) <= Len(ghosts)
        /\ ghostStatusMx.wstate = "writer"
     \/ mainPc = "eatWrite"

\* C14: no tick is started once numDots is zero or lives is at most zero, and
\* the game loop is never blocked for ever in the collision loop or in
\* printScreen, whatever the processPill goroutines do.
C14_GameOverLeavesLoop ==
  /\ mainPc = "select" => ~GameOver
  /\ ~LoopBlockedForever

\* ------------------------------------------------------------------ C15

\* the maze was loaded without a ghost and without a pill
NoGhostsNoPills == Len(ghosts) = 0 /\ CountCells(LoadedMaze, "X") = 0

\* C15: in a maze loaded without ghosts and pills, no tick is started once the
\* last dot is consumed, and unless "ESC" was received the loop is left with
\* numDots zero (the game is won), score equal to the number of dots loaded,
\* and the lives it started with.
C15_WinScenario ==
  NoGhostsNoPills =>
    /\ mainPc = "select" => numDots > 0
    /\ mainPc = "done" /\ ~escThisTick =>
          /\ numDots = 0
          /\ score = LoadNumDots(LoadedMaze)
          /\ lives = InitialLives

\* the loop was left after the last dot, without "ESC"
C15_Witness ==
  /\ NoGhostsNoPills
  /\ mainPc = "done"
  /\ ~escThisTick
  /\ numDots = 0
  /\ score > DotScore

\* ------------------------------------------------------------------ C16

\* the pcs at which the game loop reads a ghost's status (lines 867, 877, 729)
ReadsStatus == mainPc \in {"collRead", "renderRead"}

\* the step is a call of updateGhosts writing the statuses
WritesStatus ==
  \/ EatsGhost
  \/ \E k \in TaskIds : WritesBlue(k) \/ Reverts(k)

StatusChanged == \E i \in 1 .. Len(ghosts) : ghosts'[i].status # ghosts[i].status

C16_Step ==
  /\ StatusChanged => WritesStatus
  /\ WritesStatus =>
        /\ ghostStatusMx.wstate = "writer"
        /\ ghostStatusMx.readers = 0
        /\ ~ReadsStatus
        /\ ghostStatusMx'.wstate = "free"
  /\ EatsGhost => ghostStatusMx.writer = MainId
  /\ \A k \in TaskIds : WritesBlue(k) \/ Reverts(k) => ghostStatusMx.writer = k
  /\ ReadsStatus => ghostStatusMx.readers > 0

\* C16: a ghost's status is written only by updateGhosts with the write lock
\* of ghostStatusMx held by the writing goroutine and no reader inside, and
\* the collision loop and printScreen read a status only with the read lock
\* held: no write coincides with a read or with another write.
C16_StatusLockDiscipline == [][C16_Step]_vars

\* printScreen is reading the statuses while a writer waits in Lock()
C16_Witness ==
  /\ mainPc = "renderRead"
  /\ ghostStatusMx.readers = 1
  /\ ghostStatusMx.wstate = "writer"
  /\ \E k \in TaskIds : tasks[k].pc = "expWrite" /\ ghostStatusMx.writer = k

\* ------------------------------------------------- makeMove on its own

\* SpecMove applies makeMove, or its wraparound step alone, to the player put
\* on any cell of a maze, along any sequence of at most MaxDirs commands.
\* inPending holds the commands applied, player.startRow and player.startCol
\* the cell started from, lastEvent which of the two was applied.
DirSeqs == UNION {[1 .. n -> Commands] : n \in 1 .. MaxDirs}

RECURSIVE WrappedAlong(_, _, _, _)
WrappedAlong(m, row, col, ds) ==
  IF ds = <<>> THEN <<row, col>>
  ELSE LET new == Wrapped(m, row, col, Head(ds))
       IN  WrappedAlong(m, new[1], new[2], Tail(ds))

RECURSIVE makeMoveAlong(_, _, _, _)
makeMoveAlong(m, row, col, ds) ==
  IF ds = <<>> THEN <<row, col>>
  ELSE LET new == makeMove(m, row, col, Head(ds))
       IN  makeMoveAlong(m, new[1], new[2], Tail(ds))

InitMove ==
  /\ maze \in Mazes
  /\ \E k \in ScanIndex(maze) : player = Sprite(ScanRow(maze, k), ScanCol(maze, k))
  /\ inPending \in DirSeqs
  /\ ghosts = LoadGhosts(maze)
  /\ numDots = LoadNumDots(maze)
  /\ score = 0
  /\ lives = InitialLives
  /\ pillTimer = 0
  /\ pillMx = 0
  /\ ghostStatusMx = RWFree
  /\ timers = <<>>
  /\ asynctimerchan \in BOOLEAN
  /\ tasks = <<>>
  /\ mainPc = "select"
  /\ gi = 0
  /\ pillThisTick = FALSE
  /\ escThisTick = FALSE
  /\ lastEvent = NoEvent

ApplyWrapped ==
  /\ lastEvent = NoEvent
  /\ LET new == WrappedAlong(maze, player.row, player.col, inPending)
     IN  player' = [player EXCEPT !.row = new[1], !.col = new[2]]
  /\ lastEvent' = Event("wrapped", 0)
  /\ UNCHANGED <<maze, ghosts, score, numDots, lives, pillVars, ghostStatusMx,
                 asynctimerchan, inPending, mainPc, gi, pillThisTick, escThisTick>>

ApplyMakeMove ==
  /\ lastEvent = NoEvent
  /\ LET new == makeMoveAlong(maze, player.row, player.col, inPending)
     IN  player' = [player EXCEPT !.row = new[1], !.col = new[2]]
  /\ lastEvent' = Event("moved", 0)
  /\ UNCHANGED <<maze, ghosts, score, numDots, lives, pillVars, ghostStatusMx,
                 asynctimerchan, inPending, mainPc, gi, pillThisTick, escThisTick>>

NextMove == ApplyWrapped \/ ApplyMakeMove

SpecMove == InitMove /\ [][NextMove]_vars

\* ------------------------------------------------------------------ C17

InBounds(m, row, col) ==
  /\ row \in 0 .. NumRows(m) - 1
  /\ col \in 0 .. NumCols(m) - 1

\* one step off an edge of the maze comes back in at the opposite edge, in
\* the same column (UP, DOWN) or the same row (LEFT, RIGHT)
OppositeEdge(d) ==
  /\ d = "UP" /\ player.startRow = 0 =>
        player.row = NumRows(maze) - 1 /\ player.col = player.startCol
  /\ d = "DOWN" /\ player.startRow = NumRows(maze) - 1 =>
        player.row = 0 /\ player.col = player.startCol
  /\ d = "LEFT" /\ player.startCol = 0 =>
        player.col = NumCols(maze) - 1 /\ player.row = player.startRow
  /\ d = "RIGHT" /\ player.startCol = NumCols(maze) - 1 =>
        player.col = 0 /\ player.row = player.startRow

\* C17: from every cell of the maze the wraparound step of makeMove stays
\* inside the maze, a step off an edge comes back in at the opposite edge of
\* the same axis, and UP then DOWN, or LEFT then RIGHT, ends on the cell
\* started from.
C17_WraparoundClosure ==
  lastEvent.kind = "wrapped" =>
    /\ InBounds(maze, player.row, player.col)
    /\ Len(inPending) = 1 => OppositeEdge(inPending[1])
    /\ inPending \in {<<"UP", "DOWN">>, <<"LEFT", "RIGHT">>} =>
          player.row = player.startRow /\ player.col = player.startCol

\* UP then DOWN from the first row of a maze of two rows, through the wrap
C17_Witness ==
  /\ lastEvent.kind = "wrapped"
  /\ inPending = <<"UP", "DOWN">>
  /\ NumRows(maze) = 2
  /\ player.startRow = 0
  /\ player.row = 0

\* ------------------------------------------------------------------ C18

\* C18: makeMove with a command that is no direction returns the position it
\* was given; with a direction it returns the wrapped candidate cell, unless
\* that cell is a wall, and then the position it was given.
C18_WallExclusion ==
  lastEvent.kind = "moved" /\ Len(inPending) = 1 =>
    LET d    == inPending[1]
        cand == Wrapped(maze, player.startRow, player.startCol, d)
        wall == Cell(maze, cand[1], cand[2]) = "#"
    IN  /\ d \notin Directions =>
              player.row = player.startRow /\ player.col = player.startCol
        /\ d \in Directions /\ wall =>
              player.row = player.startRow /\ player.col = player.startCol
        /\ d \in Directions /\ ~wall =>
              player.row = cand[1] /\ player.col = cand[2]

\* LEFT from the first column, the wrapped candidate being a wall
C18_Witness ==
  /\ lastEvent.kind = "moved"
  /\ inPending = <<"LEFT">>
  /\ player.startCol = 0
  /\ Cell(maze, player.startRow, NumCols(maze) - 1) = "#"
  /\ Cell(maze, player.startRow, 0) # "#"
  /\ player.col = 0

\* ------------------------------------------------------------------ C19

\* C19: lives is never below zero, and the player is sent back to the start
\* only with a life left.
C19_LivesNeverNegative ==
  /\ lives >= 0
  /\ mainPc = "respawn" => lives > 0

\* ------------------------------------------------------------------ C20

\* C20: the read lock taken for a ghost on the player's cell is released on
\* every branch before the collision loop goes on, so the game loop holds no
\* lock of ghostStatusMx except between an RLock and the read that follows it:
\* none when it calls updateGhosts, in printScreen before its own RLock, at
\* the check that ends the tick, or after the loop.
C20_ReadLockBalance ==
  ghostStatusMx.readers > 0 => mainPc \in {"collRead", "renderRead"}

\* ------------------------------------------------------------------ C21

\* the task waits at line 678 on a timer that will never send: the timer is
\* not running, and its channel holds nothing (it was stopped before it
\* fired, or what it sent was received by another task or discarded by Stop)
BlockedOnStoppedTimer(t) ==
  /\ t.pc = "wait"
  /\ ~timers[t.waitOn].active
  /\ timers[t.waitOn].chan = 0

Retired(t) == t.pc = "done"

\* C21 (no task blocked for ever): no processPill task waits on a timer that
\* has been stopped and will never send.
C21_NoTaskBlockedOnStoppedTimer ==
  \A k \in TaskIds : ~BlockedOnStoppedTimer(tasks[k])

\* C21 (the eventual part): while the process runs, the processPill tasks
\* started so far all retire.
C21_TasksRetire ==
  (\E k \in TaskIds : ~Retired(tasks[k]))
    ~> ((\A k \in TaskIds : Retired(tasks[k])) \/ ~Running)

====
